---- MODULE Spec2Model ----
(***************************************************************************)
(* Model of the video-analytics question pipeline (gen_model.py): the date *)
(* and date-range parsers of VideoAnalytics and process_question with its  *)
(* three collaborators (ChromaDB retrieval, the Ollama generation service, *)
(* the SQLite storage).                                                    *)
(*                                                                         *)
(* Text is modelled as a sequence of tokens.  A token is a maximal run of  *)
(* digits (k = "num", with its value n and its number of digits w), a run  *)
(* of letters (k = "word"), a run of whitespace (k = "ws") or a single     *)
(* punctuation character (k = "punct").  The regular expressions and       *)
(* strptime formats of the source are evaluated on these tokens.  The      *)
(* Russian words of the source are written in Latin transliteration        *)
(* ("noyabrya" for the genitive of November, "s" / "po" / "do" for the     *)
(* range connectors); an apostrophe stands for the soft sign.              *)
(***************************************************************************)
EXTENDS Integers, Sequences, FiniteSets, TLC

VARIABLES
    dpc,        \* the parsers alone: "ready", "date" or "range"
    dtext,      \* the text handed to the parser
    dres,       \* what parse_date returned
    rres,       \* what parse_date_range returned
    pc,         \* position in process_question
    question,   \* the question being processed
    context,    \* what _build_context returned
    response,   \* the generation service's answer
    validated,  \* what _validate_model_response returned
    result,     \* what process_question returned
    events,     \* the calls made during the current process_question
    db,         \* the contents of the storage tables
    prior,      \* a pair of calls: what the first was given and returned
    outage,     \* a pair of calls: the fault the storage answers with
    mpc,        \* position in main
    reports,    \* the failures main has reported
    ipc,        \* position in main of json_to_base
    collections \* the names of the collections in ./chroma_db

dvars == <<dpc, dtext, dres, rres>>
pvars == <<pc, question, context, response, validated, result, events, db>>
hvars == <<prior, outage>>
mvars == <<mpc, reports>>
ivars == <<ipc, collections>>
vars == <<dpc, dtext, dres, rres, pc, question, context, response, validated,
          result, events, db, prior, outage, mpc, reports, ipc, collections>>

-----------------------------------------------------------------------------
(* Tokens *)

Num(v, w) == [k |-> "num", s |-> "", n |-> v, w |-> w]
Word(s) == [k |-> "word", s |-> s, n |-> 0, w |-> 0]
Punct(c) == [k |-> "punct", s |-> c, n |-> 0, w |-> 0]
WS == [k |-> "ws", s |-> " ", n |-> 0, w |-> 0]
NoToken == [k |-> "none", s |-> "", n |-> 0, w |-> 0]

At(str, i) == IF i >= 1 /\ i <= Len(str) THEN str[i] ELSE NoToken

IsNum(t) == t.k = "num"
IsWS(t) == t.k = "ws"
IsPunct(t, c) == t.k = "punct" /\ t.s = c
\* \w of the regular expressions: letters, digits (and the underscore)
IsWordChar(t) == t.k \in {"num", "word"}

RECURSIVE Pow10(_)
Pow10(e) == IF e <= 0 THEN 1 ELSE 10 * Pow10(e - 1)

\* the one element of a set of one element: The({F(x) : x \in {e}}) is F(e)
\* with e evaluated once
The(S) == CHOOSE x \in S : TRUE

\* str.strip(): leading and trailing whitespace removed
RECURSIVE LStrip(_)
LStrip(str) == IF str # <<>> /\ IsWS(Head(str)) THEN LStrip(Tail(str)) ELSE str

RECURSIVE RStrip(_)
RStrip(str) ==
    IF str # <<>> /\ IsWS(str[Len(str)]) THEN RStrip(SubSeq(str, 1, Len(str) - 1))
    ELSE str

Strip(str) == RStrip(LStrip(str))

\* str.lower() on the words of the vocabulary that have an upper-case letter
LowerWord(s) ==
    CASE s = "Noyabrya" -> "noyabrya"
      [] s = "PO" -> "po"
      [] OTHER -> s

Lower(str) ==
    [i \in 1..Len(str) |->
        IF str[i].k = "word" THEN Word(LowerWord(str[i].s)) ELSE str[i]]

-----------------------------------------------------------------------------
(* Calendar: datetime(year, month, day) and timedelta *)

IsLeap(y) == (y % 4 = 0) /\ ((y % 100 # 0) \/ (y % 400 = 0))

DaysInMonth(y, m) ==
    IF m = 2 THEN (IF IsLeap(y) THEN 29 ELSE 28)
    ELSE IF m \in {4, 6, 9, 11} THEN 30 ELSE 31

\* a constructor that would take any day up to 31 in any month
AnyDayUpTo31(y, m, d) ==
    /\ y >= 1 /\ y <= 9999
    /\ m >= 1 /\ m <= 12
    /\ d >= 1 /\ d <= 31

\* the values for which datetime(y, m, d) does not raise ValueError
\* (datetime.MINYEAR = 1, datetime.MAXYEAR = 9999)
ValidDate(y, m, d) ==
    /\ y >= 1 /\ y <= 9999
    /\ m >= 1 /\ m <= 12
    /\ d >= 1 /\ d <= DaysInMonth(y, m)

Date(y, m, d) == [y |-> y, m |-> m, d |-> d]
\* Python's None in the place of a date
NoDate == [y |-> 0, m |-> 0, d |-> 0]

\* date - timedelta(days=n), n at most 28: None stands for the OverflowError
\* of a result before year 1
MinusDays(date, n) ==
    IF date.d > n THEN Date(date.y, date.m, date.d - n)
    ELSE LET pm == IF date.m = 1 THEN 12 ELSE date.m - 1
             py == IF date.m = 1 THEN date.y - 1 ELSE date.y
         IN  IF py < 1 THEN NoDate
             ELSE Date(py, pm, DaysInMonth(py, pm) + date.d - n)

-----------------------------------------------------------------------------
(* VideoAnalytics.MONTH_MAP *)

MONTH_MAP ==
    ("yanvarya" :> 1) @@ ("yanvar'" :> 1) @@ ("yanv" :> 1) @@
    ("fevralya" :> 2) @@ ("fevral'" :> 2) @@ ("fev" :> 2) @@
    ("marta" :> 3) @@ ("mart" :> 3) @@ ("mar" :> 3) @@
    ("aprelya" :> 4) @@ ("aprel'" :> 4) @@ ("apr" :> 4) @@
    ("maya" :> 5) @@ ("may" :> 5) @@
    ("iyunya" :> 6) @@ ("iyun'" :> 6) @@ ("iyun" :> 6) @@
    ("iyulya" :> 7) @@ ("iyul'" :> 7) @@ ("iyul" :> 7) @@
    ("avgusta" :> 8) @@ ("avgust" :> 8) @@ ("avg" :> 8) @@
    ("sentyabrya" :> 9) @@ ("sentyabr'" :> 9) @@ ("sen" :> 9) @@
    ("oktyabrya" :> 10) @@ ("oktyabr'" :> 10) @@ ("okt" :> 10) @@
    ("noyabrya" :> 11) @@ ("noyabr'" :> 11) @@ ("noya" :> 11) @@
    ("dekabrya" :> 12) @@ ("dekabr'" :> 12) @@ ("dek" :> 12)

\* MONTH_MAP.get(name): 0 stands for None
MonthGet(name) == IF name \in DOMAIN MONTH_MAP THEN MONTH_MAP[name] ELSE 0

\* MONTH_MAP.get of a piece of text: only a single word can be a key
MonthOf(part) ==
    IF Len(part) = 1 /\ part[1].k = "word" THEN MonthGet(part[1].s) ELSE 0

-----------------------------------------------------------------------------
(* VideoAnalytics.parse_date *)

\* re.split(r'[.,\s]+', date_str): the separators
IsDateSep(t) == IsWS(t) \/ IsPunct(t, ".") \/ IsPunct(t, ",")

\* re.split(r'[.,\s]+', date_str) from position i on, cur being the piece
\* collected so far; a separator at either end leaves an empty piece there
RECURSIVE SplitParts(_, _, _)
SplitParts(str, i, cur) ==
    IF i > Len(str) THEN <<cur>>
    ELSE IF IsDateSep(str[i])
         THEN IF i > 1 /\ IsDateSep(str[i - 1])
              THEN SplitParts(str, i + 1, cur)
              ELSE <<cur>> \o SplitParts(str, i + 1, <<>>)
         ELSE SplitParts(str, i + 1, Append(cur, str[i]))

\* int(text): ok = FALSE stands for the ValueError
IntOf(part) ==
    IF Len(part) = 1 /\ IsNum(part[1]) THEN [ok |-> TRUE, v |-> part[1].n]
    ELSE IF Len(part) = 2 /\ IsPunct(part[1], "-") /\ IsNum(part[2])
         THEN [ok |-> TRUE, v |-> 0 - part[2].n]
    ELSE IF Len(part) = 2 /\ IsPunct(part[1], "+") /\ IsNum(part[2])
         THEN [ok |-> TRUE, v |-> part[2].n]
    ELSE [ok |-> FALSE, v |-> 0]

\* re.match(r'\d{4}', part): the piece starts with four digits
StartsWithYear(part) == part # <<>> /\ IsNum(part[1]) /\ part[1].w >= 4

\* the loop of lines 152-156: index of the first piece that starts with four
\* digits, 0 when there is none (indices are 1-based here, 0-based in Python)
YearIndex(parts) ==
    LET hits == {i \in 1..Len(parts) : StartsWithYear(parts[i])}
    IN  IF hits = {} THEN 0 ELSE CHOOSE i \in hits : \A j \in hits : i <= j

\* re.match(r'\d{4}-\d{2}-\d{2}', date_str): a prefix match
IsoRegex(str) ==
    /\ Len(str) >= 5
    /\ IsNum(str[1]) /\ str[1].w = 4
    /\ IsPunct(str[2], "-")
    /\ IsNum(str[3]) /\ str[3].w = 2
    /\ IsPunct(str[4], "-")
    /\ IsNum(str[5]) /\ str[5].w >= 2

\* datetime.strptime of three numeric fields joined by sep, the whole text
\* consumed: %Y is four digits, %m is 1..12 and %d is 1..31 in one or two
\* digits; yi, mi, di are the positions of the fields.  NoDate stands for the
\* ValueError.
Strptime(str, sep, yi, mi, di) ==
    IF /\ Len(str) = 5
       /\ IsNum(str[1]) /\ IsPunct(str[2], sep) /\ IsNum(str[3])
       /\ IsPunct(str[4], sep) /\ IsNum(str[5])
       /\ str[yi].w = 4
       /\ str[mi].w \in {1, 2} /\ str[mi].n >= 1 /\ str[mi].n <= 12
       /\ str[di].w \in {1, 2} /\ str[di].n >= 1 /\ str[di].n <= 31
       /\ ValidDate(str[yi].n, str[mi].n, str[di].n)
    THEN Date(str[yi].n, str[mi].n, str[di].n)
    ELSE NoDate

\* an ISO form that would read the day first
ParseIsoDayFirst(str) == IF IsoRegex(str) THEN Strptime(str, "-", 5, 3, 1) ELSE NoDate

\* lines 141-146: datetime.strptime(date_str, '%Y-%m-%d') behind the regex
ParseIso(str) == IF IsoRegex(str) THEN Strptime(str, "-", 1, 3, 5) ELSE NoDate

\* the bounds of the year in the month-name form (line 168)
YearInRange(year) == 1970 <= year /\ year <= 2100

\* lines 148-171: "<day> <month name> <year>"
ParseNamed(str) ==
    LET parts == SplitParts(str, 1, <<>>)
        yi == YearIndex(parts)
    IN  IF Len(parts) >= 3 /\ yi >= 3
        THEN LET day == IntOf(parts[yi - 2])
                 year == IntOf(parts[yi])
                 month == MonthOf(parts[yi - 1])
             IN  IF /\ day.ok /\ year.ok
                    /\ month # 0 /\ 1 <= day.v /\ day.v <= 31
                    /\ YearInRange(year.v)
                    /\ ValidDate(year.v, month, day.v)
                 THEN Date(year.v, month, day.v)
                 ELSE NoDate
        ELSE NoDate

\* lines 173-177: datetime.strptime(date_str, '%d.%m.%Y')
ParseDotted(str) == Strptime(str, ".", 5, 3, 1)

\* a form that yields a date returns it; otherwise the next form is tried
FirstDate(date, next) == IF date # NoDate THEN date ELSE next

\* the three forms in turn: the first that yields a date, else None
ParseForms(str) ==
    FirstDate(ParseIso(str), FirstDate(ParseNamed(str), ParseDotted(str)))

\* parse_date(date_str), line 139 first: date_str.strip().lower()
parse_date(date_str) == The({ParseForms(str) : str \in {Lower(Strip(date_str))}})

-----------------------------------------------------------------------------
(* VideoAnalytics.parse_date_range *)

\* the words of the vocabulary that contain the letter "s" (Cyrillic es), the
\* letters "po", and the letters "po" or "do"; and those that end with "po"
\* or "do"
WordsWithS == {"s", "avgusta", "avgust", "sentyabrya", "sentyabr'", "sen", "posle"}
WordsWithPo == {"po", "posle"}
WordsWithPoDo == {"po", "do", "posle"}
WordsEndingPoDo == {"po", "do"}

HasWordIn(str, words) ==
    \E i \in 1..Len(str) : str[i].k = "word" /\ str[i].s \in words

\* a (start, end) pair; exc names the exception raised instead of returning
Range(a, b) == [start |-> a, end |-> b, exc |-> ""]
NoRange == Range(NoDate, NoDate)
RangeRaised(e) == [start |-> NoDate, end |-> NoDate, exc |-> e]

\* the first four digits of a run of at least four digits: group (\d{4})
FirstFour(t) == t.n \div Pow10(t.w - 4)

\* a token that \d{1,2} followed by a non-digit matches
IsDay(t) == IsNum(t) /\ t.w \in {1, 2}

\* re.match(r'(\d{1,2})\s*[-]\s*(\d{1,2})\s+(\w+)\s+(\d{4})', text), with the
\* hyphen or the en dash: the groups, ok = FALSE when there is no match.
\* name is <<>> when the \w+ run is not one word.
SharedMonthMatch(str) ==
    LET dash == IF IsWS(At(str, 2)) THEN 3 ELSE 2
        d2 == IF IsWS(At(str, dash + 1)) THEN dash + 2 ELSE dash + 1
        w1 == d2 + 2
        run == {j \in w1..Len(str) : \A i \in w1..j : IsWordChar(str[i])}
        w2 == IF run = {} THEN 0 ELSE CHOOSE j \in run : \A i \in run : i <= j
    IN  IF /\ IsDay(At(str, 1))
           /\ (IsPunct(At(str, dash), "-") \/ IsPunct(At(str, dash), "en-dash"))
           /\ IsDay(At(str, d2))
           /\ IsWS(At(str, d2 + 1))
           /\ run # {}
           /\ IsWS(At(str, w2 + 1))
           /\ IsNum(At(str, w2 + 2)) /\ At(str, w2 + 2).w >= 4
        THEN [ok |-> TRUE, start_day |-> str[1].n, end_day |-> str[d2].n,
              name |-> SubSeq(str, w1, w2), year |-> FirstFour(str[w2 + 2])]
        ELSE [ok |-> FALSE, start_day |-> 0, end_day |-> 0, name |-> <<>>, year |-> 0]

\* lines 200-219: "1-5 noyabrya 2025"
RangeSharedMonth(str) ==
    LET g == SharedMonthMatch(str)
        month == MonthOf(g.name)
    IN  IF /\ g.ok /\ month # 0
           /\ ValidDate(g.year, month, g.start_day)
           /\ ValidDate(g.year, month, g.end_day)
        THEN Range(Date(g.year, month, g.start_day), Date(g.year, month, g.end_day))
        ELSE NoRange

\* the connectors of re.split(r'\s+s\s+|\s+po\s+', text)
IsConnector(t) == t.k = "word" /\ t.s \in {"s", "po"}

\* re.split(r'\s+s\s+|\s+po\s+', text) from position i on
RECURSIVE SplitConnectors(_, _, _)
SplitConnectors(str, i, cur) ==
    IF i > Len(str) THEN <<cur>>
    ELSE IF IsWS(str[i]) /\ IsConnector(At(str, i + 1)) /\ IsWS(At(str, i + 2))
         THEN <<cur>> \o SplitConnectors(str, i + 3, <<>>)
         ELSE SplitConnectors(str, i + 1, Append(cur, str[i]))

\* lines 221-228: "s 1 noyabrya 2025 po 5 noyabrya 2025"
\* lines 225-227: both dates must have parsed
BothDates(start, end) ==
    IF start # NoDate /\ end # NoDate THEN Range(start, end) ELSE NoRange

RangeFromTo(str) ==
    LET parts == SplitConnectors(str, 1, <<>>)
    IN  IF /\ HasWordIn(str, WordsWithS) /\ HasWordIn(str, WordsWithPo)
           /\ Len(parts) = 3
        THEN BothDates(parse_date(Strip(parts[2])), parse_date(Strip(parts[3])))
        ELSE NoRange

\* re.search(r'(?:po|do)\s+(.+)', text): group 1, <<>> when there is no match
UntilMatch(str) ==
    LET hits == {i \in 1..Len(str) :
                    /\ str[i].k = "word" /\ str[i].s \in WordsEndingPoDo
                    /\ IsWS(At(str, i + 1))
                    /\ i + 2 <= Len(str)}
    IN  IF hits = {} THEN <<>>
        ELSE LET i == CHOOSE h \in hits : \A j \in hits : h <= j
             IN  SubSeq(str, i + 2, Len(str))

\* the default window of an upper bound alone (line 238)
LookbackDays == 7

\* lines 230-239: "po 5 noyabrya 2025", "do 5 noyabrya 2025"
\* lines 236-239: the window that ends at end_date
Lookback(start_date, end_date) ==
    IF end_date = NoDate THEN NoRange
    ELSE IF start_date = NoDate THEN RangeRaised("OverflowError")
    ELSE Range(start_date, end_date)

LookbackTo(end_date) == Lookback(MinusDays(end_date, LookbackDays), end_date)

RangeUntil(str) ==
    IF HasWordIn(str, WordsWithPoDo) /\ UntilMatch(str) # <<>>
    THEN LookbackTo(parse_date(Strip(UntilMatch(str))))
    ELSE NoRange

\* lines 241-247: a single date, else (None, None)
\* a single date that would be taken as an upper bound
WeekUpTo(date) ==
    IF date # NoDate THEN Range(MinusDays(date, LookbackDays), date) ELSE NoRange

ZeroWidth(date) == IF date # NoDate THEN Range(date, date) ELSE NoRange

RangeSingle(str) == ZeroWidth(parse_date(str))

\* the four rules in turn: the first that returns
FirstRange(range, next) == IF range # NoRange THEN range ELSE next

RangeRules(str) ==
    FirstRange(RangeSharedMonth(str),
        FirstRange(RangeFromTo(str),
            FirstRange(RangeUntil(str), RangeSingle(str))))

\* parse_date_range(date_range_str), line 198 first: lower().strip()
parse_date_range(date_range_str) ==
    The({RangeRules(str) : str \in {Strip(Lower(date_range_str))}})

-----------------------------------------------------------------------------
(* The texts handed to the two parsers *)

\* days run from 0 to MaxDay, one past the longest month
MaxDay == 32

Width(n) == IF n < 10 THEN 1 ELSE 2

IsoText(y, m, d) == <<Num(y, 4), Punct("-"), Num(m, 2), Punct("-"), Num(d, 2)>>
NamedText(d, name, y) == <<Num(d, Width(d)), WS, Word(name), WS, Num(y, 4)>>
DottedText(d, m, y) == <<Num(d, 2), Punct("."), Num(m, 2), Punct("."), Num(y, 4)>>
SharedMonthText(d1, d2, name, y) ==
    <<Num(d1, Width(d1)), Punct("-"), Num(d2, Width(d2)), WS, Word(name), WS, Num(y, 4)>>
FromToText(x, y) == <<Word("s"), WS>> \o x \o <<WS, Word("po"), WS>> \o y
UntilText(word, y) == <<Word(word), WS>> \o y
Prefixed(word, x) == <<Word(word), WS>> \o x

Years == {1969, 1970, 2024, 2025, 2100, 2101}
Days == 0..MaxDay
MonthNumbers == {0, 2, 4, 11, 12, 13}
MonthNames == {"fevralya", "aprelya", "noyabrya", "noya", "Noyabrya", "martobrya"}

SingleDateTexts ==
    {IsoText(y, m, d) : y \in Years, m \in MonthNumbers, d \in Days}
    \cup {NamedText(d, name, y) : d \in Days, name \in MonthNames, y \in Years}
    \cup {DottedText(d, m, y) : d \in Days, m \in MonthNumbers, y \in Years}

\* the dates that appear inside range texts
RangeEnds ==
    { NamedText(1, "noyabrya", 2025), NamedText(5, "noyabrya", 2025),
      NamedText(30, "fevralya", 2025), NamedText(3, "yanvarya", 2101),
      IsoText(2025, 11, 5), IsoText(1969, 12, 31), IsoText(1, 1, 3),
      DottedText(28, 11, 2025), DottedText(3, 1, 2025) }

RangeDays == {0, 1, 5, 30, 31}

RangeTexts ==
    {SharedMonthText(d1, d2, name, y) :
        d1 \in RangeDays, d2 \in RangeDays,
        name \in {"fevralya", "noyabrya", "martobrya"}, y \in {1969, 2025}}
    \cup {FromToText(x, y) : x \in RangeEnds, y \in RangeEnds}
    \cup {Prefixed("video", FromToText(x, y)) : x \in RangeEnds, y \in RangeEnds}
    \cup {UntilText(word, y) : word \in {"po", "do", "PO", "posle"}, y \in RangeEnds}

\* other shapes: an abbreviation with its dot, text around the date, a year of
\* five digits, a numeric month between spaces, a spaced dash, padding, no text
OddTexts ==
    { <<Num(28, 2), WS, Word("noya"), Punct("."), WS, Num(2025, 4)>>,
      IsoText(2025, 11, 28) \o <<WS, Word("video")>>,
      <<Num(2025, 4), Punct("-"), Num(11, 2), Punct("-"), Num(289, 3)>>,
      Prefixed("video", NamedText(28, "noyabrya", 2025)) \o <<WS, Word("goda")>>,
      <<Num(28, 2), WS, Word("noyabrya"), WS, Num(20255, 5)>>,
      <<Num(28, 2), WS, Num(11, 2), WS, Num(2025, 4)>>,
      <<Num(1, 1), Punct("."), Num(2, 1), Punct("."), Num(2025, 4)>>,
      <<Num(28, 2), Punct("."), Num(11, 2), Punct("."), Num(25, 2)>>,
      <<Num(1, 1), WS, Punct("-"), WS, Num(5, 1), WS, Word("noya"), Punct("."), WS,
        Num(2025, 4)>>,
      <<Num(1, 1), WS, Punct("en-dash"), WS, Num(5, 1), WS, Word("noyabrya"), WS,
        Num(2025, 4)>>,
      <<Num(1, 1), Punct("-"), Num(5, 1), WS, Word("noyabrya"), WS, Num(20255, 5)>>,
      <<Num(1, 1), Punct("-"), Num(5, 1), WS, Num(11, 2), WS, Num(2025, 4)>>,
      <<WS>> \o NamedText(28, "noyabrya", 2025) \o <<WS>>,
      <<Punct("-"), Num(5, 1), WS, Word("noyabrya"), WS, Num(2025, 4)>>,
      <<Word("video")>>,
      <<>> }

DateTexts == SingleDateTexts \cup RangeTexts \cup OddTexts

-----------------------------------------------------------------------------
(* Python values inside the decoded JSON *)

\* a value: a string (its text in s), an int (n), a bool (n is 0 or 1), a
\* float (n is twice its value, so that halves exist), the floats inf and nan
\* (json.loads reads Infinity, NaN and 1e999), an int beyond 64 bits, null, a
\* list; Absent stands for a key that is not there
PyStr(text) == [t |-> "str", s |-> text, n |-> 0]
PyInt(n) == [t |-> "int", s |-> <<>>, n |-> n]
PyBool(b) == [t |-> "bool", s |-> <<>>, n |-> IF b THEN 1 ELSE 0]
PyFloat(twice) == [t |-> "float", s |-> <<>>, n |-> twice]
PyInf == [t |-> "inf", s |-> <<>>, n |-> 0]
PyNaN == [t |-> "nan", s |-> <<>>, n |-> 0]
PyBigInt == [t |-> "bigint", s |-> <<>>, n |-> 0]
PyNone == [t |-> "null", s |-> <<>>, n |-> 0]
PyList == [t |-> "list", s |-> <<>>, n |-> 0]
Absent == [t |-> "absent", s |-> <<>>, n |-> 0]

\* the number of decimal digits of n >= 0
RECURSIVE Digits(_)
Digits(n) == IF n < 10 THEN 1 ELSE 1 + Digits(n \div 10)

\* str(n) of an int
StrOfInt(n) ==
    IF n < 0 THEN <<Punct("-"), Num(0 - n, Digits(0 - n))>> ELSE <<Num(n, Digits(n))>>

\* str(value), as _validate_model_response applies it to the method; the
\* rendering of a float or a list is some text that is no word
StrOf(v) ==
    CASE v.t = "str" -> v.s
      [] v.t = "int" -> StrOfInt(v.n)
      [] v.t = "bool" -> <<Word(IF v.n = 1 THEN "True" ELSE "False")>>
      [] v.t = "null" -> <<Word("None")>>
      [] v.t = "absent" -> <<>>
      [] OTHER -> <<Punct("["), Punct("]")>>

\* a params object: dict = FALSE when "params" is missing or is no object
Params(c, r, v, d) ==
    [dict |-> TRUE, creator_id |-> c, date_range |-> r, views_threshold |-> v, date |-> d]
NoParams == Params(Absent, Absent, Absent, Absent)
NotADict == [NoParams EXCEPT !.dict = FALSE]

\* the decoded object: its "method" and "params" members
Data(m, p) == [method |-> m, params |-> p]
Name(s) == PyStr(<<Word(s)>>)

-----------------------------------------------------------------------------
(* The text of the generation service's answer *)

\* The answer is a sequence of pieces:
\*   "w"  prose without braces or backticks
\*   "{"  an opening brace, "}" a closing brace
\*   "b"  the members "method": ..., "params": {...} of an object, the params
\*        object being the last member (so the piece has braces of its own)
\*   "n"  members without any brace ("method": ... alone, or "params": null)
\*   "D"  a member whose value is nested deeper than the interpreter's
\*        recursion limit, without braces ("a": [[[[ ... ]]]])
\*   "F"  the fence opener ```json, "E" the bare fence ```
Pieces == {"w", "{", "}", "b", "n", "D", "F", "E"}

\* the longest answer, in pieces
MaxTextLen == 3

RECURSIVE SeqsUpTo(_, _)
SeqsUpTo(S, n) ==
    IF n = 0 THEN {<<>>}
    ELSE LET shorter == SeqsUpTo(S, n - 1)
         IN  shorter \cup {Append(t, x) : t \in {u \in shorter : Len(u) = n - 1}, x \in S}

\* re.search(r'```json\s*([\s\S]*?)\s*```', model_response): the first opener
\* and the first fence after it (the opener of a second block starts with a
\* fence too); group 1 is what lies between.  found = FALSE: no match.
FenceMatch(text) ==
    LET opens == {i \in 1..Len(text) : text[i] = "F"}
        i == CHOOSE x \in opens : \A y \in opens : x <= y
        closes == {j \in (i + 1)..Len(text) : text[j] \in {"F", "E"}}
        j == CHOOSE x \in closes : \A y \in closes : x <= y
    IN  IF opens = {} \/ closes = {} THEN [found |-> FALSE, group |-> <<>>]
        ELSE [found |-> TRUE, group |-> SubSeq(text, i + 1, j - 1)]

\* "P" is the params object of a "b" piece standing alone: what is left of the
\* piece when the text before its first brace is cut away
HasOpen(x) == x \in {"{", "b", "P"}
HasClose(x) == x \in {"}", "b", "P"}

\* re.sub(r'^[^{]*', '', json_str): everything before the first '{' removed
RECURSIVE StripToOpen(_)
StripToOpen(text) ==
    IF text = <<>> THEN <<>>
    ELSE IF Head(text) = "b" THEN <<"P">> \o Tail(text)
    ELSE IF HasOpen(Head(text)) THEN text
    ELSE StripToOpen(Tail(text))

\* re.sub(r'[^}]*$', '', json_str): everything after the last '}' removed
RECURSIVE StripFromClose(_)
StripFromClose(text) ==
    IF text = <<>> THEN <<>>
    ELSE IF HasClose(text[Len(text)]) THEN text
    ELSE StripFromClose(SubSeq(text, 1, Len(text) - 1))

\* lines 521-529: the text handed to json.loads
JsonStr(model_response) ==
    LET m == FenceMatch(model_response)
        json_str == IF m.found THEN m.group ELSE model_response
    IN  StripFromClose(StripToOpen(json_str))

\* json.loads(json_str) of a text that is empty or starts with '{':
\* "members" (an object with the members of the answer), "params" (the params
\* object alone), "empty" (the object {}), or the exception raised
JsonLoads(json_str) ==
    IF json_str \in {<<"{", "b", "}">>, <<"{", "n", "}">>} THEN "members"
    ELSE IF json_str = <<"P">> THEN "params"
    ELSE IF json_str = <<"{", "}">> THEN "empty"
    ELSE IF Len(json_str) >= 2 /\ json_str[1] = "{" /\ json_str[2] = "D"
         THEN "RecursionError"
    ELSE "JSONDecodeError"

\* the object json.loads returns, data being what the members of the answer say
Decoded(json_str, data) ==
    CASE JsonLoads(json_str) = "members" -> data
      [] JsonLoads(json_str) = "params" -> Data(Absent, NoParams)
      [] OTHER -> Data(Absent, NoParams)

-----------------------------------------------------------------------------
(* VideoAnalytics.AVAILABLE_METHODS and _validate_model_response *)

\* a catalog with an entry process_question has no branch for
CatalogWithExtraMethod ==
    { "get_video_count", "get_videos_by_creator_in_date_range",
      "get_videos_with_views_more_than", "get_total_views_growth_on_date",
      "get_unique_videos_with_new_views_on_date", "drop_table" }

AVAILABLE_METHODS ==
    { "get_video_count", "get_videos_by_creator_in_date_range",
      "get_videos_with_views_more_than", "get_total_views_growth_on_date",
      "get_unique_videos_with_new_views_on_date" }

\* str(response.get('method', '')).strip()
MethodText(response_data) == Strip(StrOf(response_data.method))

\* the text is one word, and the word is name
IsWord(text, name) == Len(text) = 1 /\ text[1].k = "word" /\ text[1].s = name

\* lines 478-481: a string value is stripped, any other value kept
StripValue(v) == IF v.t = "str" THEN PyStr(Strip(v.s)) ELSE v

\* a validation that would go by the first word of the method text alone
validate_first_word(response_data) ==
    LET text == MethodText(response_data)
        known == {m \in AVAILABLE_METHODS \cup {"unknown"} :
                    text # <<>> /\ text[1].k = "word" /\ text[1].s = m}
        raw == response_data.params
    IN  [ method |-> IF known = {} THEN "unknown" ELSE CHOOSE m \in known : TRUE,
          params |-> IF raw.dict
                     THEN Params(StripValue(raw.creator_id), StripValue(raw.date_range),
                                 StripValue(raw.views_threshold), StripValue(raw.date))
                     ELSE NoParams ]

\* _validate_model_response(response): the method as a name, the params with
\* their strings stripped ('explanation' is read by nothing and left out)
validate_model_response(response_data) ==
    LET text == MethodText(response_data)
        known == {m \in AVAILABLE_METHODS \cup {"unknown"} : IsWord(text, m)}
        raw == response_data.params
    IN  [ method |-> IF known = {} THEN "unknown" ELSE CHOOSE m \in known : TRUE,
          params |-> IF raw.dict
                     THEN Params(StripValue(raw.creator_id), StripValue(raw.date_range),
                                 StripValue(raw.views_threshold), StripValue(raw.date))
                     ELSE NoParams ]

NotValidated == [method |-> "", params |-> NoParams]

-----------------------------------------------------------------------------
(* Exceptions and the handlers of process_question *)

\* the classes that derive from Exception, among those raised here
ExceptionClasses ==
    { "JSONDecodeError", "RecursionError", "TypeError", "ValueError", "AttributeError",
      "OverflowError", "KeyError", "ConnectionError", "sqlite3.Error" }

\* handlers that would catch less than Exception
CatchesConnectionError(e) == e = "ConnectionError"
CatchesDecodingErrors(e) == e \in {"JSONDecodeError", "TypeError", "ValueError"}

\* line 514: except Exception
ModelHandlerCatches(e) == e \in ExceptionClasses
\* line 534: except (json.JSONDecodeError, TypeError)
ParseHandlerCatches(e) == e \in {"JSONDecodeError", "TypeError"}
\* line 574: except (TypeError, ValueError)
ThresholdHandlerCatches(e) == e \in {"TypeError", "ValueError"}
\* line 605: except Exception
DispatchHandlerCatches(e) == e \in ExceptionClasses
\* line 609: except Exception
OuterHandlerCatches(e) == e \in ExceptionClasses

\* what process_question hands back: a string (kind "str": the sentence msg
\* with the fragment arg inside it, or msg = "number" with the digits in arg)
\* or an exception that leaves the method (kind "raise")
Sentence(msg, arg) == [kind |-> "str", msg |-> msg, arg |-> arg]
Escapes(e) == [kind |-> "raise", msg |-> e, arg |-> <<>>]
NoResult == [kind |-> "none", msg |-> "", arg |-> <<>>]

\* line 603: str(result)
FormatResult(n) == Sentence("number", StrOfInt(n))

\* the sentences of lines 516, 536, 540, 554, 558, 567, 572, 575, 580, 584,
\* 600, 607 and 611
Diagnostics ==
    { "model_unavailable", "response_parse", "unknown_intent", "missing_creator_or_range",
      "range_parse", "missing_threshold", "negative_threshold", "invalid_threshold",
      "missing_date", "date_parse", "unknown_method", "data_retrieval", "internal_error" }

\* an exception raised by step 1, 2 or 4, outside the handlers of their own
RaisedInPipeline(e) ==
    IF OuterHandlerCatches(e) THEN Sentence("internal_error", <<>>) ELSE Escapes(e)

\* an exception raised inside the try of lines 545-603
RaisedInDispatch(e) ==
    IF DispatchHandlerCatches(e) THEN Sentence("data_retrieval", <<Word(e)>>)
    ELSE RaisedInPipeline(e)

-----------------------------------------------------------------------------
(* The storage tables and the five catalog methods *)

Video(id, creator, created, views) ==
    [id |-> id, creator_id |-> creator, video_created_at |-> created, views_count |-> views]
Snapshot(id, video, created, delta) ==
    [id |-> id, video_id |-> video, created_at |-> created, delta_views_count |-> delta]

EmptyDB == [videos |-> {}, video_snapshots |-> {}]

SampleDB ==
    [ videos |->
        { Video(1, <<Word("abc")>>, Date(2025, 11, 3), 150000),
          Video(2, <<Word("abc")>>, Date(2025, 11, 20), 50),
          Video(3, <<Word("xyz")>>, Date(2025, 10, 30), 100000) },
      video_snapshots |->
        { Snapshot(1, 1, Date(2025, 11, 28), 10),
          Snapshot(2, 1, Date(2025, 11, 28), 5),
          Snapshot(3, 2, Date(2025, 11, 28), 0),
          Snapshot(4, 3, Date(2025, 11, 27), 7) } ]

Databases == {EmptyDB, SampleDB}

\* what the storage layer does to a query: answers it, or raises sqlite3.Error
\* (no such table, a lost or closed connection)
StorageFaults == {"", "sqlite3.Error"}

\* dates in order, as DATE(a) <= DATE(b) compares them
DateLE(a, b) ==
    \/ a.y < b.y
    \/ a.y = b.y /\ a.m < b.m
    \/ a.y = b.y /\ a.m = b.m /\ a.d <= b.d

RECURSIVE SumDelta(_)
SumDelta(rows) ==
    IF rows = {} THEN 0
    ELSE LET r == CHOOSE x \in rows : TRUE
         IN  r.delta_views_count + SumDelta(rows \ {r})

\* what a catalog method hands back: the scalar n, or the exception exc
Scalar(n) == [exc |-> "", n |-> n]
QueryRaised(e) == [exc |-> e, n |-> 0]

\* _execute_query with the aggregate of the query computed over the tables,
\* and "result[0][0] if result else 0" applied to its one row
execute_query(aggregate, fault) ==
    IF fault # "" THEN QueryRaised(fault) ELSE Scalar(aggregate)

get_video_count(d, fault) == execute_query(Cardinality(d.videos), fault)

get_videos_by_creator_in_date_range(d, fault, creator_id, start_date, end_date) ==
    execute_query(
        Cardinality({v \in d.videos :
            /\ v.creator_id = creator_id
            /\ DateLE(start_date, v.video_created_at)
            /\ DateLE(v.video_created_at, end_date)}),
        fault)

\* an int beyond 64 bits cannot be bound: sqlite3 raises OverflowError
get_videos_with_views_more_than(d, fault, views_threshold) ==
    IF views_threshold.t = "bigint" THEN QueryRaised("OverflowError")
    ELSE execute_query(
             Cardinality({v \in d.videos : v.views_count > views_threshold.n}), fault)

get_total_views_growth_on_date(d, fault, date) ==
    execute_query(SumDelta({r \in d.video_snapshots : r.created_at = date}), fault)

get_unique_videos_with_new_views_on_date(d, fault, date) ==
    execute_query(
        Cardinality({r.video_id : r \in {x \in d.video_snapshots :
            x.created_at = date /\ x.delta_views_count > 0}}),
        fault)

-----------------------------------------------------------------------------
(* Step 5 of process_question: the dispatch of lines 538-607 *)

Event(op, by) == [op |-> op, by |-> by]

\* what a branch does: the string returned (or the exception raised) and the
\* calls made on the way
Done(res, ev) == [res |-> res, ev |-> ev]

\* params.get(key, '').strip(): AttributeError on a value that is no string
GetStripped(v) ==
    IF v.t = "absent" THEN [exc |-> "", s |-> <<>>]
    ELSE IF v.t = "str" THEN [exc |-> "", s |-> Strip(v.s)]
    ELSE [exc |-> "AttributeError", s |-> <<>>]

\* int(views_threshold): the int (as a value, since it may exceed 64 bits) or
\* the exception
IntOfValue(v) ==
    CASE v.t \in {"int", "bool"} -> [exc |-> "", v |-> PyInt(v.n)]
      [] v.t = "bigint" -> [exc |-> "", v |-> PyBigInt]
      [] v.t = "float" ->
            [exc |-> "", v |-> PyInt(IF v.n >= 0 THEN v.n \div 2 ELSE 0 - ((0 - v.n) \div 2))]
      [] v.t = "inf" -> [exc |-> "OverflowError", v |-> PyNone]
      [] v.t = "nan" -> [exc |-> "ValueError", v |-> PyNone]
      [] v.t = "str" ->
            IF IntOf(Strip(v.s)).ok THEN [exc |-> "", v |-> PyInt(IntOf(Strip(v.s)).v)]
            ELSE [exc |-> "ValueError", v |-> PyNone]
      [] OTHER -> [exc |-> "TypeError", v |-> PyNone]

Query(by) == Event("execute_query", by)

\* a query result turned into what the branch returns
Answer(q, ev) ==
    IF q.exc # "" THEN Done(RaisedInDispatch(q.exc), ev) ELSE Done(FormatResult(q.n), ev)

\* a count that would be asked for a second time
DispatchCountAgain(d, fault) ==
    Answer(get_video_count(d, fault),
           <<Query("get_video_count"), Query("get_video_count")>>)

\* lines 546-547
DispatchCount(d, fault) ==
    Answer(get_video_count(d, fault), <<Query("get_video_count")>>)

\* lines 549-562
\* lines 555-562: range is what parse_date_range returned
CreatorRangeParsed(d, fault, creator_id, date_range, range) ==
    LET parsed == <<Event("parse_date_range", "")>>
    IN  IF range.exc # "" THEN Done(RaisedInDispatch(range.exc), parsed)
        ELSE IF range.start = NoDate \/ range.end = NoDate
             THEN Done(Sentence("range_parse", date_range), parsed)
        ELSE Answer(get_videos_by_creator_in_date_range(
                        d, fault, creator_id, range.start, range.end),
                    Append(parsed, Query("get_videos_by_creator_in_date_range")))

DispatchCreatorRange(params, d, fault) ==
    LET creator_id == GetStripped(params.creator_id)
        date_range == GetStripped(params.date_range)
    IN  IF creator_id.exc # "" THEN Done(RaisedInDispatch(creator_id.exc), <<>>)
        ELSE IF date_range.exc # "" THEN Done(RaisedInDispatch(date_range.exc), <<>>)
        ELSE IF creator_id.s = <<>> \/ date_range.s = <<>>
             THEN Done(Sentence("missing_creator_or_range", <<>>), <<>>)
        ELSE CreatorRangeParsed(d, fault, creator_id.s, date_range.s,
                                parse_date_range(date_range.s))

\* lines 564-575: the query runs inside the try of the int() conversion
DispatchViews(params, d, fault) ==
    LET views_threshold == params.views_threshold
        threshold == IntOfValue(views_threshold)
        q == get_videos_with_views_more_than(d, fault, threshold.v)
        asked == <<Query("get_videos_with_views_more_than")>>
        invalid == Sentence("invalid_threshold", StrOf(views_threshold))
    IN  IF views_threshold.t \in {"absent", "null"}
        THEN Done(Sentence("missing_threshold", <<>>), <<>>)
        ELSE IF threshold.exc # ""
             THEN Done(IF ThresholdHandlerCatches(threshold.exc) THEN invalid
                       ELSE RaisedInDispatch(threshold.exc), <<>>)
        ELSE IF threshold.v.t = "int" /\ threshold.v.n < 0
             THEN Done(Sentence("negative_threshold", <<>>), <<>>)
        ELSE IF q.exc # "" /\ ThresholdHandlerCatches(q.exc) THEN Done(invalid, asked)
        ELSE Answer(q, asked)

\* lines 577-586 and 588-597: the two branches differ in the method called
\* lines 582-586 and 593-597: date is what parse_date returned
OnDateParsed(method_name, d, fault, date_str, date) ==
    LET parsed == <<Event("parse_date", "")>>
    IN  IF date = NoDate THEN Done(Sentence("date_parse", date_str), parsed)
        ELSE Answer(IF method_name = "get_total_views_growth_on_date"
                    THEN get_total_views_growth_on_date(d, fault, date)
                    ELSE get_unique_videos_with_new_views_on_date(d, fault, date),
                    Append(parsed, Query(method_name)))

DispatchOnDate(method_name, params, d, fault) ==
    LET date_str == GetStripped(params.date)
    IN  IF date_str.exc # "" THEN Done(RaisedInDispatch(date_str.exc), <<>>)
        ELSE IF date_str.s = <<>> THEN Done(Sentence("missing_date", <<>>), <<>>)
        ELSE OnDateParsed(method_name, d, fault, date_str.s, parse_date(date_str.s))

\* a catalog whose count would be taken by deleting
StatementVerbDeleting(method) ==
    CASE method = "get_video_count" -> "DELETE"
      [] method \in AVAILABLE_METHODS -> "SELECT"
      [] OTHER -> ""

\* the verb of the one SQL statement each catalog method hands to
\* _execute_query (lines 251, 273, 292, 308 and 327)
StatementVerb(method) ==
    CASE method = "get_video_count" -> "SELECT"
      [] method = "get_videos_by_creator_in_date_range" -> "SELECT"
      [] method = "get_videos_with_views_more_than" -> "SELECT"
      [] method = "get_total_views_growth_on_date" -> "SELECT"
      [] method = "get_unique_videos_with_new_views_on_date" -> "SELECT"
      [] OTHER -> ""

\* the tables after cursor.execute of one statement, its values bound to the
\* placeholders: a SELECT leaves them as they are, a DELETE leaves none
TablesAfter(d, verb) == IF verb = "DELETE" THEN EmptyDB ELSE d

\* the tables after the calls ev of one branch
RECURSIVE TablesAfterCalls(_, _)
TablesAfterCalls(d, ev) ==
    IF ev = <<>> THEN d
    ELSE TablesAfterCalls(
             IF Head(ev).op = "execute_query"
             THEN TablesAfter(d, StatementVerb(Head(ev).by))
             ELSE d,
             Tail(ev))

\* lines 538-607
Dispatch(v, d, fault) ==
    CASE v.method = "unknown" -> Done(Sentence("unknown_intent", <<>>), <<>>)
      [] v.method = "get_video_count" -> DispatchCount(d, fault)
      [] v.method = "get_videos_by_creator_in_date_range" ->
            DispatchCreatorRange(v.params, d, fault)
      [] v.method = "get_videos_with_views_more_than" -> DispatchViews(v.params, d, fault)
      [] v.method \in {"get_total_views_growth_on_date",
                       "get_unique_videos_with_new_views_on_date"} ->
            DispatchOnDate(v.method, v.params, d, fault)
      [] OTHER -> Done(Sentence("unknown_method", <<>>), <<>>)

-----------------------------------------------------------------------------
(* Steps 1 and 2: search_in_embeddings and _build_context *)

\* n_results of search_in_embeddings
NResults == 5
\* the documents _build_context takes over
MaxContextDocs == 3
\* the most documents the collection holds
MaxCollection == 4

Min(a, b) == IF a < b THEN a ELSE b

\* search_in_embeddings: the number of documents returned; a failure of the
\* collection (count or query raising) is caught and gives none
search_in_embeddings(failed, count) == IF failed THEN 0 ELSE Min(NResults, count)

\* a context that would be left empty when there is no document
build_context_from_documents(documents) ==
    [ sections |-> IF documents > 0 THEN <<"methods", "examples", "knowledge">> ELSE <<>>,
      ndocs |-> Min(documents, MaxContextDocs) ]

\* _build_context: the sections of the context and the documents in the last
build_context(documents) ==
    [ sections |-> <<"methods", "examples">>
                   \o (IF documents > 0 THEN <<"knowledge">> ELSE <<>>),
      ndocs |-> Min(documents, MaxContextDocs) ]

NoContext == [sections |-> <<>>, ndocs |-> 0]

-----------------------------------------------------------------------------
(* Step 3: what the generation service may answer *)

Text(tokens) == PyStr(tokens)

MethodValues ==
    {Name(m) : m \in AVAILABLE_METHODS}
    \cup { Name("unknown"), Name("GET_VIDEO_COUNT"), Name("drop_table"),
           Text(<<WS, Word("get_video_count"), WS>>),
           Text(<<Word("get_video_count"), WS, Word("now")>>),
           Text(<<>>), Absent, PyNone, PyInt(1), PyList }

CreatorValues ==
    { Name("abc"), Text(<<WS, Word("xyz"), WS>>), Text(<<>>), Text(<<WS>>),
      Absent, PyNone, PyInt(123) }

RangeValues ==
    { Text(SharedMonthText(1, 5, "noyabrya", 2025)),
      Text(SharedMonthText(5, 1, "noyabrya", 2025)),
      Text(FromToText(NamedText(1, "noyabrya", 2025), NamedText(5, "noyabrya", 2025))),
      Text(UntilText("po", IsoText(1, 1, 3))),
      Text(<<Word("video")>>),
      Text(<<>>), Absent, PyNone, PyInt(5) }

ThresholdValues ==
    { PyInt(100000), PyInt(0), PyInt(0 - 5), PyBigInt, PyBool(TRUE),
      PyFloat(11), PyFloat(0 - 1), PyInf, PyNaN,
      Text(<<Num(100, 3)>>), Text(<<WS, Num(7, 1), WS>>), Text(<<Punct("-"), Num(5, 1)>>),
      Text(<<Word("abc")>>), Text(<<Num(5, 1), Punct("."), Num(5, 1)>>), Text(<<>>),
      PyList, PyNone, Absent }

DateValues ==
    { Text(NamedText(28, "noyabrya", 2025)),
      Text(<<WS>> \o DottedText(28, 11, 2025) \o <<WS>>),
      Text(NamedText(30, "fevralya", 2025)),
      Text(IsoText(1969, 12, 31)),
      Text(<<>>), Absent, PyNone, PyInt(20251128) }

\* every parameter given, whatever the method
AllParams ==
    Params(Name("abc"), Text(SharedMonthText(1, 5, "noyabrya", 2025)), PyInt(100000),
           Text(NamedText(28, "noyabrya", 2025)))

\* the objects a "b" piece may spell: its params member is an object
DataWithParams ==
    {Data(m, NoParams) : m \in MethodValues}
    \cup {Data(m, AllParams) : m \in MethodValues}
    \cup {Data(Name("get_videos_by_creator_in_date_range"), Params(c, r, Absent, Absent)) :
            c \in CreatorValues, r \in RangeValues}
    \cup {Data(Name("get_videos_with_views_more_than"), Params(Absent, Absent, v, Absent)) :
            v \in ThresholdValues}
    \cup {Data(Name(m), Params(Absent, Absent, Absent, d)) :
            m \in {"get_total_views_growth_on_date",
                   "get_unique_videos_with_new_views_on_date"},
            d \in DateValues}

\* the objects an "n" piece may spell: no params member, or one that is no object
DataWithoutParams == {Data(m, NotADict) : m \in MethodValues}

DefaultData == Data(Name("get_video_count"), NoParams)

\* longer answers: a fenced object, an object inside prose, a fenced object
\* inside braces that do not parse
LongTexts ==
    { <<"F", "{", "b", "}", "E">>, <<"w", "{", "b", "}", "w">>,
      <<"w", "F", "{", "n", "}", "E", "w">>,
      <<"{", "w", "F", "{", "b", "}", "E", "w", "}">> }

Texts == SeqsUpTo(Pieces, MaxTextLen) \cup LongTexts

Reply(e, text, data) == [exc |-> e, text |-> text, data |-> data]
NoReply == Reply("", <<>>, DefaultData)

\* ollama.chat(...)['message']['content'].strip(): a text, or a failure of
\* the call (service down, timeout) or of the shape of what it returned
ModelFailures == {"ConnectionError", "KeyError", "AttributeError"}

ModelOutcomes ==
    {Reply(e, <<>>, DefaultData) : e \in ModelFailures}
    \cup {Reply("", t, DefaultData) : t \in Texts}
    \cup {Reply("", <<"{", "b", "}">>, d) : d \in DataWithParams}
    \cup {Reply("", <<"{", "n", "}">>, d) : d \in DataWithoutParams}

-----------------------------------------------------------------------------
(* process_question, step by step *)

Questions == {"how many videos", "views growth on a date"}

PipelineIdle ==
    /\ pc = "idle"
    /\ question = ""
    /\ context = NoContext
    /\ response = NoReply
    /\ validated = NotValidated
    /\ result = NoResult
    /\ events = <<>>

DatesIdle ==
    /\ dpc = "off"
    /\ dtext = <<>>
    /\ dres = NoDate
    /\ rres = NoRange

\* no call has been recorded
NoCall ==
    [question |-> "", context |-> NoContext, response |-> NoReply, result |-> NoResult]

PairIdle ==
    /\ prior = NoCall
    /\ outage = ""

\* main is not running: the instance is used directly
MainIdle ==
    /\ mpc = "off"
    /\ reports = 0

\* json_to_base is not running
IngestIdle ==
    /\ ipc = "off"
    /\ collections = {}

Init ==
    /\ PipelineIdle
    /\ DatesIdle
    /\ PairIdle
    /\ MainIdle
    /\ IngestIdle
    /\ db \in Databases

\* process_question(question) is called
Ask ==
    /\ pc = "idle"
    /\ \E q \in Questions : question' = q
    /\ pc' = "context"
    /\ UNCHANGED <<context, response, validated, result, events, db>>
    /\ UNCHANGED dvars
    /\ UNCHANGED hvars
    /\ UNCHANGED mvars
    /\ UNCHANGED ivars

\* lines 498-503: _build_context and _generate_prompt
BuildContext ==
    /\ pc = "context"
    /\ \E failed \in BOOLEAN, count \in 0..MaxCollection :
          /\ context' = build_context(search_in_embeddings(failed, count))
          /\ events' = Append(events, Event("search_in_embeddings",
                                            IF failed THEN "failed" ELSE "ok"))
    /\ pc' = "model"
    /\ UNCHANGED <<question, response, validated, result, db>>
    /\ UNCHANGED dvars
    /\ UNCHANGED hvars
    /\ UNCHANGED mvars
    /\ UNCHANGED ivars

\* lines 505-516: the one call of the generation service
CallModel ==
    /\ pc = "model"
    /\ \E r \in ModelOutcomes :
          /\ response' = r
          /\ IF r.exc # ""
             THEN /\ result' = IF ModelHandlerCatches(r.exc)
                               THEN Sentence("model_unavailable", <<>>)
                               ELSE RaisedInPipeline(r.exc)
                  /\ pc' = "done"
             ELSE /\ result' = result
                  /\ pc' = "parse"
    /\ events' = Append(events, Event("ollama.chat", ""))
    /\ UNCHANGED <<question, context, validated, db>>
    /\ UNCHANGED dvars
    /\ UNCHANGED hvars
    /\ UNCHANGED mvars
    /\ UNCHANGED ivars

\* lines 518-536: the JSON is cut out, decoded and validated
ParseResponse ==
    /\ pc = "parse"
    /\ LET json_str == JsonStr(response.text)
           loaded == JsonLoads(json_str)
       IN  IF loaded \in ExceptionClasses
           THEN /\ result' = IF ParseHandlerCatches(loaded)
                             THEN Sentence("response_parse", <<>>)
                             ELSE RaisedInPipeline(loaded)
                /\ events' = Append(events, Event("json.loads", loaded))
                /\ pc' = "done"
                /\ UNCHANGED validated
           ELSE /\ validated' = validate_model_response(Decoded(json_str, response.data))
                /\ events' = events \o <<Event("json.loads", "ok"),
                                         Event("_validate_model_response", "")>>
                /\ pc' = "dispatch"
                /\ UNCHANGED result
    /\ UNCHANGED <<question, context, response, db>>
    /\ UNCHANGED dvars
    /\ UNCHANGED hvars
    /\ UNCHANGED mvars
    /\ UNCHANGED ivars

\* lines 538-607: the method is run and its result formatted
DispatchMethod ==
    /\ pc = "dispatch"
    /\ \E fault \in StorageFaults :
          LET did == Dispatch(validated, db, fault)
          IN  /\ result' = did.res
              /\ events' = events \o did.ev
              /\ db' = TablesAfterCalls(db, did.ev)
    /\ pc' = "done"
    /\ UNCHANGED <<question, context, response, validated>>
    /\ UNCHANGED dvars
    /\ UNCHANGED hvars
    /\ UNCHANGED mvars
    /\ UNCHANGED ivars

\* process_question has returned; the next question may come
Return ==
    /\ pc = "done"
    /\ pc' = "idle"
    /\ question' = ""
    /\ context' = NoContext
    /\ response' = NoReply
    /\ validated' = NotValidated
    /\ result' = NoResult
    /\ events' = <<>>
    /\ UNCHANGED db
    /\ UNCHANGED dvars
    /\ UNCHANGED hvars
    /\ UNCHANGED mvars
    /\ UNCHANGED ivars

Next == Ask \/ BuildContext \/ CallModel \/ ParseResponse \/ DispatchMethod \/ Return

Spec == Init /\ [][Next]_vars

-----------------------------------------------------------------------------
(* The parsers applied to a text *)

DateInit ==
    /\ dpc = "ready"
    /\ dtext \in DateTexts
    /\ dres = NoDate
    /\ rres = NoRange
    /\ PipelineIdle
    /\ PairIdle
    /\ MainIdle
    /\ IngestIdle
    /\ db = EmptyDB

\* a call of parse_date(dtext)
ParseDate ==
    /\ dpc = "ready"
    /\ dres' = parse_date(dtext)
    /\ dpc' = "date"
    /\ UNCHANGED <<dtext, rres>>
    /\ UNCHANGED pvars
    /\ UNCHANGED hvars
    /\ UNCHANGED mvars
    /\ UNCHANGED ivars

\* a call of parse_date_range(dtext)
ParseDateRange ==
    /\ dpc = "ready"
    /\ rres' = parse_date_range(dtext)
    /\ dpc' = "range"
    /\ UNCHANGED <<dtext, dres>>
    /\ UNCHANGED pvars
    /\ UNCHANGED hvars
    /\ UNCHANGED mvars
    /\ UNCHANGED ivars

DateNext == ParseDate \/ ParseDateRange

DateSpec == DateInit /\ [][DateNext]_vars

-----------------------------------------------------------------------------
(* Properties of process_question *)

\* the positions, in the trace of the call in progress, of the calls of op
Calls(op) == {i \in 1..Len(events) : events[i].op = op}
StorageCalls == Calls("execute_query")
DateCalls == Calls("parse_date") \cup Calls("parse_date_range")

\* the decimal rendering of an integer
IsDecimal(text) ==
    \/ Len(text) = 1 /\ IsNum(text[1])
    \/ Len(text) = 2 /\ IsPunct(text[1], "-") /\ IsNum(text[2])

\* the object the answer of the generation service decodes to
DecodedData == Decoded(JsonStr(response.text), response.data)

\* C1: when process_question has ended it has returned a string, the decimal
\* rendering of the query result or one of the diagnostic sentences, whatever
\* the three collaborators did; no exception has left it
C1_NoExceptionEscapes ==
    pc = "done" =>
        /\ result.kind = "str"
        /\ \/ result.msg = "number" /\ IsDecimal(result.arg)
           \/ result.msg \in Diagnostics

\* an exception no inner handler names was turned into the internal-error
\* sentence
C1_Witness ==
    /\ pc = "done"
    /\ Calls("json.loads") # {}
    /\ \A i \in Calls("json.loads") : events[i].by = "RecursionError"
    /\ result = Sentence("internal_error", <<>>)

\* C2: within one call the generation service is called exactly once, the
\* storage is queried at most once, and a storage query comes only after the
\* generation service has answered and its answer was decoded and validated
C2_CallOrder ==
    /\ Cardinality(Calls("ollama.chat")) <= 1
    /\ pc \in {"parse", "dispatch", "done"} => Cardinality(Calls("ollama.chat")) = 1
    /\ Cardinality(StorageCalls) <= 1
    /\ \A q \in StorageCalls :
          \E m \in Calls("ollama.chat"), l \in Calls("json.loads"),
             v \in Calls("_validate_model_response") :
                m < l /\ l < v /\ v < q /\ events[l].by = "ok"

\* a call that went through all the steps and queried the storage
C2_Witness ==
    /\ pc = "done"
    /\ Cardinality(StorageCalls) = 1
    /\ result.msg = "number"

\* the method value is, once trimmed, exactly one of the five names
Recognised(v) ==
    v.t = "str" /\ \E m \in AVAILABLE_METHODS : Strip(v.s) = <<Word(m)>>

\* C3: a decoded answer whose method is not exactly one of the five names is
\* validated to 'unknown', and the call ends with the unknown-intent sentence
\* without a storage query and without a date being parsed
C3_UnknownShortCircuits ==
    (/\ pc \in {"dispatch", "done"}
     /\ Calls("_validate_model_response") # {}
     /\ ~Recognised(DecodedData.method))
    => /\ validated.method = "unknown"
       /\ pc = "done" =>
            /\ result = Sentence("unknown_intent", <<>>)
            /\ StorageCalls = {}
            /\ DateCalls = {}

\* a known name in another case, sent with every parameter filled in
C3_Witness ==
    /\ pc = "done"
    /\ Calls("_validate_model_response") # {}
    /\ DecodedData = Data(Name("GET_VIDEO_COUNT"), AllParams)
    /\ result = Sentence("unknown_intent", <<>>)

\* a threshold that is there and either does not convert to an int or converts
\* to a negative one
NegativeOrUnparseable(v) ==
    /\ v.t \notin {"absent", "null"}
    /\ \/ IntOfValue(v).exc # ""
       \/ IntOfValue(v).v.t = "int" /\ IntOfValue(v).v.n < 0

\* C4: for get_videos_with_views_more_than a views_threshold that is negative
\* or cannot be parsed as an integer ends the call with an invalid-parameter
\* sentence, and no storage query is issued
C4_InvalidThreshold ==
    (/\ pc = "done"
     /\ validated.method = "get_videos_with_views_more_than"
     /\ NegativeOrUnparseable(validated.params.views_threshold))
    => /\ result.msg \in {"negative_threshold", "invalid_threshold"}
       /\ StorageCalls = {}

\* a parameter that is missing (no key, or null) or empty
MissingOrEmpty(v) ==
    \/ v.t \in {"absent", "null"}
    \/ v.t = "str" /\ Strip(v.s) = <<>>

\* a parameter the method of the validated intent requires is missing or empty
RequiredMissing(v) ==
    CASE v.method = "get_videos_by_creator_in_date_range" ->
            MissingOrEmpty(v.params.creator_id) \/ MissingOrEmpty(v.params.date_range)
      [] v.method = "get_videos_with_views_more_than" ->
            MissingOrEmpty(v.params.views_threshold)
      [] v.method \in {"get_total_views_growth_on_date",
                       "get_unique_videos_with_new_views_on_date"} ->
            MissingOrEmpty(v.params.date)
      [] OTHER -> FALSE

\* C5: when a parameter required by the method is missing or empty, the call
\* ends with the missing-parameter sentence, before any date is parsed and
\* without a storage query
C5_MissingParameter ==
    (pc = "done" /\ RequiredMissing(validated))
    => /\ result.msg \in {"missing_creator_or_range", "missing_threshold", "missing_date"}
       /\ DateCalls = {}
       /\ StorageCalls = {}

\* C6: an answer without a parseable {...} object ends the call with the
\* response-parse sentence; no storage query is issued and no intent guessed
C6_NoParseableObject ==
    (/\ pc = "done"
     /\ \E i \in Calls("json.loads") : events[i].by # "ok")
    => /\ result = Sentence("response_parse", <<>>)
       /\ StorageCalls = {}
       /\ validated = NotValidated

\* C7: when the call of the generation service fails, process_question ends
\* with the model-unavailable sentence; the service is not called again and
\* no storage query is issued
C7_ModelUnavailable ==
    (pc = "done" /\ response.exc # "")
    => /\ result = Sentence("model_unavailable", <<>>)
       /\ Cardinality(Calls("ollama.chat")) = 1
       /\ StorageCalls = {}

\* the answer of the service had no 'message' in it
C7_Witness ==
    /\ pc = "done"
    /\ response.exc = "KeyError"
    /\ result = Sentence("model_unavailable", <<>>)

-----------------------------------------------------------------------------
(* Properties of the parsers *)

\* C8: a range returned by parse_date_range, both ends present, has
\* start <= end, whichever of the four shapes produced it
C8_StartNotAfterEnd ==
    (/\ dpc = "range"
     /\ rres.exc = ""
     /\ rres.start # NoDate /\ rres.end # NoDate)
    => DateLE(rres.start, rres.end)

\* C9: a date returned by parse_date has its year in [1970, 2100], whichever
\* of the three forms matched
C9_YearBounded ==
    (dpc = "date" /\ dres # NoDate) => (1970 <= dres.y /\ dres.y <= 2100)

\* C10: for the text "s X po Y" where X and Y each parse as a date,
\* parse_date_range returns (parse_date(X), parse_date(Y)); when either fails,
\* the from-to rule produces no range
C10_FromToEnds ==
    \A x \in RangeEnds, y \in RangeEnds :
        (dpc = "range" /\ dtext = FromToText(x, y))
        => IF parse_date(x) # NoDate /\ parse_date(y) # NoDate
           THEN rres = Range(parse_date(x), parse_date(y))
           ELSE RangeFromTo(Strip(Lower(dtext))) = NoRange

\* the number of the day, counted from 1 January of year 1
RECURSIVE DaysBeforeMonth(_, _)
DaysBeforeMonth(y, m) ==
    IF m <= 1 THEN 0 ELSE DaysInMonth(y, m - 1) + DaysBeforeMonth(y, m - 1)

DayNumber(date) ==
    365 * (date.y - 1) + ((date.y - 1) \div 4) - ((date.y - 1) \div 100)
    + ((date.y - 1) \div 400) + DaysBeforeMonth(date.y, date.m) + date.d

\* the range that ends at the date end and starts 7 calendar days before it
EndsAtWeekBefore(range, end) ==
    /\ range.exc = ""
    /\ end # NoDate
    /\ range.end = end
    /\ range.start # NoDate
    /\ DayNumber(range.end) - DayNumber(range.start) = 7

\* C11: for the text "po Y" or "do Y" where Y parses as a date,
\* parse_date_range returns end = parse_date(Y) and start = the day 7
\* calendar days before end
C11_WeekBeforeUpperBound ==
    \A word \in {"po", "do"}, y \in RangeEnds :
        (dpc = "range" /\ dtext = UntilText(word, y) /\ parse_date(y) # NoDate)
        => EndsAtWeekBefore(rres, parse_date(y))

\* C12: for every valid date with its year in [1970, 2100], parse_date of the
\* ISO text YYYY-MM-DD returns the same (year, month, day)
C12_IsoRoundTrip ==
    dpc = "date" =>
        \A y \in Years, m \in MonthNumbers, d \in Days :
            (/\ dtext = IsoText(y, m, d)
             /\ 1970 <= y /\ y <= 2100
             /\ ValidDate(y, m, d))
            => dres = Date(y, m, d)

\* the leap day of 2024 came back from its ISO text
C12_Witness ==
    /\ dpc = "date"
    /\ dtext = IsoText(2024, 2, 29)
    /\ dres = Date(2024, 2, 29)

\* (year, month, day) is a day of the calendar
RealDate(y, m, d) == m \in 1..12 /\ d >= 1 /\ d <= DaysInMonth(y, m)

\* C13: parse_date returns no date for a text whose day (at most 31), month
\* (one that resolves) and year are no day of the calendar, in the month-name
\* form, the dotted form and the ISO form: no form accepts what another
\* rejected
C13_NoInvalidCalendarDate ==
    dpc = "date" =>
        \A y \in Years, d \in 1..31 :
            /\ \A name \in MonthNames :
                 (/\ dtext = NamedText(d, name, y)
                  /\ MonthGet(LowerWord(name)) # 0
                  /\ ~RealDate(y, MonthGet(LowerWord(name)), d))
                 => dres = NoDate
            /\ \A m \in 1..12 :
                 (/\ dtext \in {DottedText(d, m, y), IsoText(y, m, d)}
                  /\ ~RealDate(y, m, d))
                 => dres = NoDate

\* 30 February, written with the name of the month, gave no date
C13_Witness ==
    /\ dpc = "date"
    /\ dtext = NamedText(30, "fevralya", 2025)
    /\ dres = NoDate

\* C14: for a text that is one bare date parse_date accepts, parse_date_range
\* returns the zero-width range start = end = parse_date(text); for a text
\* that no rule accepts it returns no start and no end
C14_SingleDateZeroWidth ==
    dpc = "range" =>
        /\ (Strip(dtext) \in SingleDateTexts /\ parse_date(dtext) # NoDate)
           => rres = Range(parse_date(dtext), parse_date(dtext))
        /\ (/\ RangeSharedMonth(Strip(Lower(dtext))) = NoRange
            /\ RangeFromTo(Strip(Lower(dtext))) = NoRange
            /\ RangeUntil(Strip(Lower(dtext))) = NoRange
            /\ parse_date(dtext) = NoDate)
           => rres = NoRange

\* a dotted date came back as a range of one day
C14_Witness ==
    /\ dpc = "range"
    /\ dtext = DottedText(28, 11, 2025)
    /\ rres = Range(Date(2025, 11, 28), Date(2025, 11, 28))

-----------------------------------------------------------------------------
(* Two calls of process_question on one instance *)

\* the answers of the generation service in a pair of calls: a failure, a
\* text without an object, an object too deep, and one object for each way
\* the dispatch can go
PairOutcomes ==
    { Reply("ConnectionError", <<>>, DefaultData),
      Reply("", <<"w">>, DefaultData),
      Reply("", <<"{", "D", "}">>, DefaultData) }
    \cup {Reply("", <<"{", "b", "}">>, d) : d \in
            { Data(Name("get_video_count"), NoParams),
              Data(Name("drop_table"), AllParams),
              Data(Name("get_videos_by_creator_in_date_range"),
                   Params(Name("abc"), Text(SharedMonthText(1, 5, "noyabrya", 2025)),
                          Absent, Absent)),
              Data(Name("get_videos_with_views_more_than"),
                   Params(Absent, Absent, PyInt(100000), Absent)),
              Data(Name("get_videos_with_views_more_than"),
                   Params(Absent, Absent, PyInf, Absent)),
              Data(Name("get_total_views_growth_on_date"),
                   Params(Absent, Absent, Absent, Text(NamedText(28, "noyabrya", 2025)))),
              Data(Name("get_unique_videos_with_new_views_on_date"),
                   Params(Absent, Absent, Absent, Text(NamedText(28, "noyabrya", 2025)))),
              Data(Name("get_total_views_growth_on_date"),
                   Params(Absent, Absent, Absent, PyNone)) }}

\* the instance is constructed once; the storage keeps answering the same way
PairInit ==
    /\ PipelineIdle
    /\ DatesIdle
    /\ prior = NoCall
    /\ outage \in StorageFaults
    /\ MainIdle
    /\ IngestIdle
    /\ db \in Databases

\* the second call is given the question of the first
AskPair ==
    /\ Ask
    /\ prior # NoCall => question' = prior.question

CallModelPair ==
    /\ CallModel
    /\ response' \in PairOutcomes

\* lines 538-607 with the storage answering as it does for the whole pair
DispatchPair ==
    /\ pc = "dispatch"
    /\ LET did == Dispatch(validated, db, outage)
       IN  /\ result' = did.res
           /\ events' = events \o did.ev
           /\ db' = TablesAfterCalls(db, did.ev)
    /\ pc' = "done"
    /\ UNCHANGED <<question, context, response, validated>>
    /\ UNCHANGED dvars
    /\ UNCHANGED hvars
    /\ UNCHANGED mvars
    /\ UNCHANGED ivars

\* a return that would leave the tables empty behind it
ReturnFirstClearing ==
    /\ pc = "done"
    /\ prior = NoCall
    /\ prior' = [question |-> question, context |-> context,
                 response |-> response, result |-> result]
    /\ pc' = "idle"
    /\ question' = ""
    /\ context' = NoContext
    /\ response' = NoReply
    /\ validated' = NotValidated
    /\ result' = NoResult
    /\ events' = <<>>
    /\ db' = EmptyDB
    /\ UNCHANGED outage
    /\ UNCHANGED dvars
    /\ UNCHANGED mvars
    /\ UNCHANGED ivars

\* the first call has returned: its locals are gone, the instance (the
\* connection, the collection) is what it was
ReturnFirst ==
    /\ pc = "done"
    /\ prior = NoCall
    /\ prior' = [question |-> question, context |-> context,
                 response |-> response, result |-> result]
    /\ pc' = "idle"
    /\ question' = ""
    /\ context' = NoContext
    /\ response' = NoReply
    /\ validated' = NotValidated
    /\ result' = NoResult
    /\ events' = <<>>
    /\ UNCHANGED <<db, outage>>
    /\ UNCHANGED dvars
    /\ UNCHANGED mvars
    /\ UNCHANGED ivars

PairNext ==
    AskPair \/ BuildContext \/ CallModelPair \/ ParseResponse \/ DispatchPair \/ ReturnFirst

PairSpec == PairInit /\ [][PairNext]_vars

\* the second call of a pair has returned
SecondReturned == pc = "done" /\ prior # NoCall

\* the collaborators gave the second call what they gave the first
SameOutcomes == context = prior.context /\ response = prior.response

-----------------------------------------------------------------------------
(* The storage across calls *)

\* C16: no step of any process_question call changes the contents of the
\* tables videos and video_snapshots, whatever the generation service answers
C16_StorageUnchanged == [][db' = db]_vars

\* a query was answered from tables that hold rows, and they still hold them
C16_Witness ==
    /\ pc = "done"
    /\ StorageCalls # {}
    /\ db = SampleDB
    /\ result = FormatResult(3)

-----------------------------------------------------------------------------
(* Retrieval *)

\* the retrieval lookup of the call in progress failed or found nothing
RetrievedNothing ==
    /\ Calls("search_in_embeddings") # {}
    /\ \A i \in Calls("search_in_embeddings") : events[i].by = "failed" \/ context.ndocs = 0

\* C17: when the retrieval lookup fails or returns no documents, the context
\* is the catalog description and the examples without the reference section,
\* the call goes on to the generation service, and no call has ended before
\* the generation service was called
C17_RetrievalDegrades ==
    RetrievedNothing =>
        /\ context = [sections |-> <<"methods", "examples">>, ndocs |-> 0]
        /\ pc \in {"model", "parse", "dispatch", "done"}
        /\ pc \in {"parse", "dispatch", "done"} => Calls("ollama.chat") # {}

\* the lookup failed and the question was still answered with a number
C17_Witness ==
    /\ pc = "done"
    /\ Len(events) >= 1
    /\ events[1] = Event("search_in_embeddings", "failed")
    /\ context.sections = <<"methods", "examples">>
    /\ result.msg = "number"

\* ---------------------------------------------------------------------
\* main: construction of VideoAnalytics, then the question loop
\* ---------------------------------------------------------------------

\* __init__: the exception that leaves the constructor, "" when it completes;
\* only a ValueError of get_collection is turned into a RuntimeError
init(client, collection, connect) ==
    IF client # "" THEN client
    ELSE IF collection = "ValueError" THEN "RuntimeError"
    ELSE IF collection # "" THEN collection
    ELSE connect

\* a handler that catches RuntimeError alone
CatchesRuntimeError(e) == e = "RuntimeError"

\* main, except Exception: every class but the BaseException-only ones
MainHandlerCatches(e) == e \notin {"KeyboardInterrupt", "SystemExit"}

\* the outer handler of main: one report, then main returns
MainFails(e, at) ==
    /\ mpc' = at
    /\ reports' = IF MainHandlerCatches(e) THEN reports + 1 ELSE reports

MainInit ==
    /\ PipelineIdle
    /\ DatesIdle
    /\ PairIdle
    /\ mpc = "start"
    /\ reports = 0
    /\ IngestIdle
    /\ db \in Databases

\* analytics = VideoAnalytics(), with what chromadb.PersistentClient,
\* get_collection and sqlite3.connect raise ("" when they return)
Construct ==
    /\ mpc = "start"
    /\ \E client \in {"", "OSError"},
          collection \in {"", "ValueError", "NotFoundError"},
          connect \in {"", "sqlite3.Error"} :
          LET e == init(client, collection, connect)
          IN  IF e = "" THEN mpc' = "loop" /\ reports' = reports
              ELSE MainFails(e, "failed")
    /\ UNCHANGED pvars
    /\ UNCHANGED dvars
    /\ UNCHANGED hvars
    /\ UNCHANGED ivars

\* input() gives a question: analytics.process_question(question) starts
MainAsk ==
    /\ mpc = "loop"
    /\ Ask

\* input() gives an empty line, an exit word, or raises
ReadOther ==
    /\ mpc = "loop"
    /\ pc = "idle"
    /\ \E line \in {"", "exit", "vyhod", "quit", "KeyboardInterrupt", "EOFError"} :
          IF line = "" THEN UNCHANGED mvars
          ELSE IF line \in {"exit", "vyhod", "quit", "KeyboardInterrupt"}
               THEN mpc' = "exited" /\ reports' = reports
          ELSE MainFails(line, "stopped")
    /\ UNCHANGED pvars
    /\ UNCHANGED dvars
    /\ UNCHANGED hvars
    /\ UNCHANGED ivars

MainNext ==
    \/ Construct
    \/ MainAsk
    \/ ReadOther
    \/ BuildContext
    \/ CallModel
    \/ ParseResponse
    \/ DispatchMethod
    \/ Return

MainSpec == MainInit /\ [][MainNext]_vars

\* C18: when construction of VideoAnalytics fails, main has reported exactly
\* one failure and no question is ever read or processed afterwards; and a
\* question is in process only while main is in its loop, which it enters
\* only after construction has completed.
C18_NoQuestionWithoutInit ==
    /\ [](/\ mpc = "failed" => (reports = 1 /\ pc = "idle" /\ question = "" /\ events = <<>>)
          /\ pc # "idle" => mpc = "loop"
          /\ mpc = "start" => (pc = "idle" /\ reports = 0)
          /\ reports <= 1)
    /\ [][mpc = "failed" => UNCHANGED vars]_vars
    /\ [][mpc' = "loop" => mpc \in {"start", "loop"}]_vars

C18_Witness == mpc = "failed" /\ reports = 1 /\ pc = "idle"

\* a text parameter of the validated intent's method that is present and is
\* no string
NonStringParameter(v) ==
    CASE v.method = "get_videos_by_creator_in_date_range" ->
            \/ v.params.creator_id.t \notin {"absent", "str"}
            \/ v.params.date_range.t \notin {"absent", "str"}
      [] v.method \in {"get_total_views_growth_on_date",
                       "get_unique_videos_with_new_views_on_date"} ->
            v.params.date.t \notin {"absent", "str"}
      [] OTHER -> FALSE

\* C19: process_question returns the data-retrieval sentence only when a
\* storage query was issued for the request, and a parameter of the model's
\* answer that is no string ends the call with a parameter or date sentence,
\* never with the data-retrieval sentence.
C19_DataRetrievalOnlyFromStorage ==
    pc = "done"
    => /\ result.msg = "data_retrieval" => StorageCalls # {}
       /\ NonStringParameter(validated)
          => result.msg \in {"missing_creator_or_range", "missing_date",
                             "range_parse", "date_parse"}

\* C20: a call that passed validation with a method other than 'unknown' is in
\* the catalog and takes the branch of that method: the call never ends with
\* the unknown-method sentence, and every storage query is issued by the
\* validated method, an entry of AVAILABLE_METHODS.
C20_CatalogAndDispatchAgree ==
    pc = "done"
    => /\ result.msg # "unknown_method"
       /\ validated # NotValidated
          => validated.method \in AVAILABLE_METHODS \cup {"unknown"}
       /\ \A i \in StorageCalls :
             /\ events[i].by \in AVAILABLE_METHODS
             /\ events[i].by = validated.method

C20_Witness ==
    /\ pc = "done"
    /\ validated.method = "get_unique_videos_with_new_views_on_date"
    /\ \E i \in StorageCalls : events[i].by = validated.method
    /\ result.kind = "str"
    /\ result.msg = "number"

\* ---------------------------------------------------------------------
\* json_to_base: ingestion, then the start of the analytics system on the
\* same ./chroma_db
\* ---------------------------------------------------------------------

\* chroma_client.get_collection(name): the exception raised, "" when the
\* collection is there; the class raised for a missing one depends on the
\* chromadb release
get_collection(store, name, release) ==
    IF name \in store THEN ""
    ELSE IF release = "old" THEN "ValueError" ELSE "NotFoundError"

\* create_embedding_database: delete_collection (its exception swallowed),
\* create_collection, generate_schema_embedding and collection.add; any
\* exception is logged and raised again
create_embedding_database(store, collection_name, fault) ==
    CASE fault = "client" -> [exc |-> "OSError", collections |-> store]
      [] fault = "create" ->
            [exc |-> "ChromaError", collections |-> store \ {collection_name}]
      [] fault = "embedding" ->
            [exc |-> "ConnectionError", collections |-> store \cup {collection_name}]
      [] OTHER -> [exc |-> "", collections |-> store \cup {collection_name}]

\* json_to_base.main is about to run on a store that is fresh or holds
\* collections of earlier runs; the analytics system has not been started
IngestInit ==
    /\ PipelineIdle
    /\ DatesIdle
    /\ PairIdle
    /\ mpc = "start"
    /\ reports = 0
    /\ ipc = "start"
    /\ collections \in SUBSET {"video_schema", "video_embeddings"}
    /\ db \in Databases

\* read_json_file and the check of the structure
ReadJson ==
    /\ ipc = "start"
    /\ \E fault \in {"", "FileNotFoundError", "JSONDecodeError", "ValueError"} :
          ipc' = IF fault = "" THEN "read" ELSE "returned1"
    /\ UNCHANGED collections
    /\ UNCHANGED <<pvars, dvars, hvars, mvars>>

\* create_and_populate_database(data)
Populate ==
    /\ ipc = "read"
    /\ \E fault \in {"", "psycopg2.Error"} :
          ipc' = IF fault = "" THEN "populated" ELSE "returned1"
    /\ UNCHANGED collections
    /\ UNCHANGED <<pvars, dvars, hvars, mvars>>

\* create_embedding_database() with its default collection name, then
\* return 0; return 1 when it raised
CreateEmbeddings ==
    /\ ipc = "populated"
    /\ \E fault \in {"", "client", "create", "embedding"} :
          LET made == create_embedding_database(collections, "video_schema", fault)
          IN  /\ collections' = made.collections
              /\ ipc' = IF made.exc = "" THEN "returned0" ELSE "returned1"
    /\ UNCHANGED <<pvars, dvars, hvars, mvars>>

\* the analytics system is started after json_to_base has returned:
\* VideoAnalytics() looks for 'video_embeddings' in the store
ConstructAfterIngest ==
    /\ mpc = "start"
    /\ ipc \in {"returned0", "returned1"}
    /\ \E client \in {"", "OSError"}, release \in {"old", "new"},
          connect \in {"", "sqlite3.Error"} :
          LET e == init(client,
                        get_collection(collections, "video_embeddings", release),
                        connect)
          IN  IF e = "" THEN mpc' = "loop" /\ reports' = reports
              ELSE MainFails(e, "failed")
    /\ UNCHANGED <<pvars, dvars, hvars, ivars>>

IngestNext ==
    \/ ReadJson
    \/ Populate
    \/ CreateEmbeddings
    \/ ConstructAfterIngest
    \/ MainAsk
    \/ ReadOther
    \/ BuildContext
    \/ CallModel
    \/ ParseResponse
    \/ DispatchMethod
    \/ Return

IngestSpec == IngestInit /\ [][IngestNext]_vars

\* C21: once json_to_base.main has returned 0, the store holds the collection
\* 'video_embeddings' that VideoAnalytics.__init__ looks up, so the lookup of
\* the constructor raises nothing, whatever the chromadb release.
C21_IngestionMakesRequiredCollection ==
    ipc = "returned0"
    => /\ "video_embeddings" \in collections
       /\ \A release \in {"old", "new"} :
             get_collection(collections, "video_embeddings", release) = ""

====
